---- MODULE Spec2Model ----
(***************************************************************************)
(* BeagleWatch: the RSS -> markdown ingestion pipeline.                    *)
(*                                                                         *)
(* RssToMdApp.process_feed drives every entry of a feed through            *)
(* FeedFetcher.parse_item, MarkdownStore.exists_guid_or_fp,                *)
(* AssetManager.download_to_temp / final_asset_path and                    *)
(* MarkdownStore.atomic_write_post.  Several runs (operating-system        *)
(* processes started from __main__) share one SQLite database in WAL mode  *)
(* and one content directory; each process has its own connection.         *)
(***************************************************************************)
EXTENDS Naturals, Integers, Sequences, FiniteSets, TLC

(* ---------------------------------------------------------------------- *)
(* Bounds of the model                                                     *)
(* ---------------------------------------------------------------------- *)

\* entries one run takes from its feeds
MaxEntries == 2
\* interruptions (a kill, a failing rename) in one behaviour of SpecInterrupt
MaxFaults == 1
\* final_asset_path requests in one behaviour of SpecAssets
MaxRequests == 3

\* characters of an entry's content (SpecParse)
MaxContent == 4
\* characters of the normalized content that go into the fingerprint: the
\* [:2000] of parse_item, scaled to the contents of the model
FingerprintChars == 3

\* feeds in the list RssToMdApp.run goes through
MaxFeeds == 3

\* ticks the wall clock makes while the process runs
MaxClock == 3

\* ticks of the wall clock in one calendar day
TicksPerDay == 2

\* the concurrent ingestion runs (one process each, own sqlite3 connection)
Procs == {"run1", "run2"}

(* ---------------------------------------------------------------------- *)
(* Feed items (model.FeedItem), as parse_item hands them over              *)
(* ---------------------------------------------------------------------- *)

NoGuid == "None"

ItemIds == {"zero", "zero_upd", "zero_nog", "zday", "patch"}

\* The FeedItem of each entry of the modelled feeds:
\*   zero      the entry of the spec's scenario
\*   zero_upd  same guid as zero, other content (other fingerprint)
\*   zero_nog  same title/link/content as zero (same fingerprint), no guid,
\*             with an enclosure
\*   zday      another entry, same date and a title with the same slug as zero
\*   patch     an unrelated entry
FeedItem(i) ==
  CASE i = "zero"     -> [guid |-> "abc123", fingerprint |-> "fp1",
                          title |-> "Zero-Day Found",
                          published_date_str |-> "2024-03-01",
                          enclosures |-> << >>]
    [] i = "zero_upd" -> [guid |-> "abc123", fingerprint |-> "fp2",
                          title |-> "Zero-Day Found: update",
                          published_date_str |-> "2024-03-02",
                          enclosures |-> << >>]
    [] i = "zero_nog" -> [guid |-> NoGuid, fingerprint |-> "fp1",
                          title |-> "Zero-Day Found",
                          published_date_str |-> "2024-03-01",
                          enclosures |-> <<"https://b.example/image.png">>]
    [] i = "zday"     -> [guid |-> "xyz789", fingerprint |-> "fp3",
                          title |-> "Zero Day Found!",
                          published_date_str |-> "2024-03-01",
                          enclosures |-> <<"https://a.example/image.png",
                                           "https://b.example/image.png">>]
    [] OTHER          -> [guid |-> NoGuid, fingerprint |-> "fp4",
                          title |-> "Patch Tuesday",
                          published_date_str |-> "2024-03-02",
                          enclosures |-> <<"https://a.example/image.png">>]

\* safe_slug: slugify lower-cases and hyphenates, the regex drops what is left
SafeSlug(title) ==
  CASE title = "Zero-Day Found"         -> "zero-day-found"
    [] title = "Zero Day Found!"        -> "zero-day-found"
    [] title = "Zero-Day Found: update" -> "zero-day-found-update"
    [] title = "Patch Tuesday"          -> "patch-tuesday"
    [] OTHER                            -> "post"

\* final_path = output_dir / f"{published_date_str}-{post_slug}.md"
FinalPath(item) == <<item.published_date_str, SafeSlug(item.title)>>

DocPaths == {FinalPath(FeedItem(i)) : i \in ItemIds}

VARIABLES
  pc,          \* where each run is in process_feed / atomic_write_post
  cur,         \* the entry a run is processing
  ran,         \* the entries a run has taken from its feed so far
  txn,         \* state of the run's connection: none | begun | read | write
  snap,        \* rows visible to the connection's open read transaction
  writer,      \* connection holding the WAL write lock, or NoProc
  posts,       \* committed rows of table posts, in commit order
  docs,        \* content directory: final path -> document, or NoFile
  tmpf,        \* the mdtmp_ file of the run's latest atomic_write_post call
  ret,         \* outcome of the run's latest atomic_write_post call
  added,       \* rows that call inserted
  wrote,       \* whether that call put a file at the final path
  faults,      \* interruptions so far
  late,        \* the run started after an interruption
  tempAssets,  \* temp_assets of the item being processed
  finalAssetPaths, \* final_asset_paths of the item being processed
  dlok,        \* enclosures of the item whose HTTP download completed
  assetTemps,  \* asset_ temp files of the item being processed that
               \* download_to_temp created and did not hand over
  orphanTemps, \* such a file of an entry done with is still on disk
  assetFiles,  \* files in the asset directories
  requests,    \* final_asset_path calls made by a caller (SpecAssets)
  lastRead,    \* what the presentation layer last loaded from a final path
  stagedTemps, \* asset_ temp files in temp_assets of a run still on disk
  assetSource, \* final asset path -> the download a run has moved there
  fetched,     \* outcome of fetch for each feed a run has gone through
  contents,    \* content of the feed entries handed to parse_item
  fingerprints, \* fingerprint parse_item has computed for each of them
  clock,       \* the wall clock, in ticks
  now,         \* FeedFetcher.now, set when the module is imported
  pubParsed,   \* published_parsed or updated_parsed of those entries
  published    \* published_dt, published_iso and published_date_str
               \* parse_item has computed for each of them

\* what the steps of one entry's pipeline never touch
extVars == <<fetched, contents, fingerprints, clock, now, pubParsed,
            published>>

vars == <<pc, cur, ran, txn, snap, writer, posts, docs, tmpf, ret, added,
          wrote, faults, late, tempAssets, finalAssetPaths, dlok,
          assetTemps, orphanTemps, assetFiles, requests, lastRead,
          stagedTemps, assetSource, extVars>>

NoProc == "nobody"

(* ---------------------------------------------------------------------- *)
(* MarkdownStore                                                           *)
(* ---------------------------------------------------------------------- *)

\* rows the connection of run p reads: inside a read transaction the WAL
\* snapshot taken by its first SELECT, otherwise the committed table
View(p) ==
  IF txn[p] = "read" THEN SubSeq(posts, 1, snap[p]) ELSE posts

\* SELECT 1 FROM posts WHERE guid = ?  (only when the item has a guid),
\* then SELECT 1 FROM posts WHERE fingerprint = ?
ExistsGuidOrFp(rows, guid, fingerprint) ==
  \/ /\ guid # NoGuid
     /\ \E k \in 1..Len(rows) : rows[k].guid = guid
  \/ \E k \in 1..Len(rows) : rows[k].fingerprint = fingerprint

\* the row of INSERT INTO posts (guid, fingerprint, title, path, ...)
PostRow(item) ==
  [guid |-> item.guid, fingerprint |-> item.fingerprint,
   title |-> item.title, path |-> FinalPath(item)]

\* guid TEXT UNIQUE, fingerprint TEXT UNIQUE (NULLs are distinct)
UniqueViolation(rows, row) ==
  \/ /\ row.guid # NoGuid
     /\ \E k \in 1..Len(rows) : rows[k].guid = row.guid
  \/ \E k \in 1..Len(rows) : rows[k].fingerprint = row.fingerprint

\* no file at a path
NoFile == [exists |-> FALSE, item |-> "", assets |-> << >>, full |-> FALSE]

\* the file mkstemp has created and nothing has been written to yet
EmptyDoc == [exists |-> TRUE, item |-> "", assets |-> << >>, full |-> FALSE]

\* the rendered document: front matter of the item, body, asset references
Render(i, asset_final_paths) ==
  [exists |-> TRUE, item |-> i, assets |-> asset_final_paths, full |-> TRUE]


(* ---------------------------------------------------------------------- *)
(* AssetManager                                                            *)
(* ---------------------------------------------------------------------- *)

\* An asset file name is its stem split at the suffixes the collision loop
\* appends, the extension left out: <<"image">> is image.png,
\* <<"image", 1>> is image-1.png, <<"image", 1, 2>> is image-1-2.png.

\* os.path.basename(urlparse(url).path)
Basename(url) ==
  CASE url = "https://a.example/image.png" -> <<"image">>
    [] url = "https://b.example/image.png" -> <<"image">>
    [] OTHER                               -> <<"file">>

\* open(tf, "wb", encoding="utf-8"): binary mode takes no encoding argument
OpenWbEncoding == "ValueError"

\* download_to_temp: mkstemp, GET, raise_for_status, open, write; any
\* exception -> None.  transport is the outcome of the HTTP request.
DownloadToTemp(transport) ==
  IF transport = "ok" /\ OpenWbEncoding = "opened" THEN "handle" ELSE "None"

RECURSIVE UniqueDest(_, _, _, _)
\* while dest.exists(): dest = dest_dir / f"{dest.stem}-{i}{dest.suffix}"; i += 1
UniqueDest(files, dir, dest, i) ==
  IF <<dir, dest>> \in files
    THEN UniqueDest(files, dir, Append(dest, i), i + 1)
    ELSE dest

\* final_asset_path(feed_slug, date_str, post_slug, filename)
FinalAssetPath(files, dir, filename) == UniqueDest(files, dir, filename, 1)

(* ---------------------------------------------------------------------- *)
(* RssToMdApp.process_feed                                                 *)
(* ---------------------------------------------------------------------- *)

\* temp_assets: the (tf, url) of the enclosures download_to_temp staged
RECURSIVE StagedOf(_, _, _)
StagedOf(enclosures, transport, k) ==
  IF k > Len(enclosures) THEN << >>
  ELSE IF DownloadToTemp(transport[k]) = "handle"
         THEN <<enclosures[k]>> \o StagedOf(enclosures, transport, k + 1)
         ELSE StagedOf(enclosures, transport, k + 1)

NoItem == "none"

\* os.remove(tmp_path) of atomic_write_post, given the temp file
KeepTmp(f) == f
RemoveTmp(f) == NoFile

Item(p) == FeedItem(cur[p])

\* process_feed is through with the entry: on to the next one.  Temp files of
\* download_to_temp that are still on disk stay there for good.
ItemDone(p) ==
  /\ pc' = [pc EXCEPT ![p] = "idle"]
  /\ cur' = [cur EXCEPT ![p] = NoItem]
  /\ ret' = [ret EXCEPT ![p] = "-"]
  /\ added' = [added EXCEPT ![p] = 0]
  /\ wrote' = [wrote EXCEPT ![p] = FALSE]
  /\ dlok' = [dlok EXCEPT ![p] = 0]
  /\ tempAssets' = [tempAssets EXCEPT ![p] = << >>]
  /\ finalAssetPaths' = [finalAssetPaths EXCEPT ![p] = << >>]

\* Start with the table created anew (DROP TABLE, CREATE TABLE)
StartFresh(p) ==
  /\ pc[p] = "boot"
  /\ pc' = [pc EXCEPT ![p] = "idle"]
  /\ late' = [late EXCEPT ![p] = (faults > 0)]
  /\ posts' = << >>
  /\ UNCHANGED <<cur, ran, txn, snap, writer, docs, tmpf, ret, added,
                 wrote, faults, tempAssets, finalAssetPaths, dlok,
                 assetTemps, orphanTemps, assetFiles, requests, lastRead,
                 stagedTemps, assetSource, extVars>>

\* module import and RssToMdApp(): connect, WAL, CREATE TABLE IF NOT EXISTS
Start(p) ==
  /\ pc[p] = "boot"
  /\ pc' = [pc EXCEPT ![p] = "idle"]
  /\ late' = [late EXCEPT ![p] = (faults > 0)]
  /\ UNCHANGED <<cur, ran, txn, snap, writer, posts, docs, tmpf, ret, added,
                 wrote, faults, tempAssets, finalAssetPaths, dlok,
                 assetTemps, orphanTemps, assetFiles, requests, lastRead,
                 stagedTemps, assetSource, extVars>>

\* Precheck with the result of exists_guid_or_fp ignored
PrecheckNoSkip(p) ==
  /\ pc[p] = "idle"
  /\ Cardinality(ran[p]) < MaxEntries
  /\ \E i \in ItemIds \ ran[p] :
       /\ ran' = [ran EXCEPT ![p] = @ \cup {i}]
       /\ pc' = [pc EXCEPT ![p] = "stage"]
       /\ cur' = [cur EXCEPT ![p] = i]
  /\ UNCHANGED <<txn, snap, writer, posts, docs, tmpf, ret, added, wrote,
                 faults, late, tempAssets, finalAssetPaths, dlok, assetTemps,
                 orphanTemps, assetFiles, requests, lastRead,
                 stagedTemps, assetSource, extVars>>

\* next entry: parse_item, then the advisory exists_guid_or_fp; an entry
\* found is skipped
Precheck(p) ==
  /\ pc[p] = "idle"
  /\ Cardinality(ran[p]) < MaxEntries
  /\ \E i \in ItemIds \ ran[p] :
       /\ ran' = [ran EXCEPT ![p] = @ \cup {i}]
       /\ IF ExistsGuidOrFp(View(p), FeedItem(i).guid, FeedItem(i).fingerprint)
            THEN UNCHANGED <<pc, cur>>
            ELSE /\ pc' = [pc EXCEPT ![p] = "stage"]
                 /\ cur' = [cur EXCEPT ![p] = i]
  /\ UNCHANGED <<txn, snap, writer, posts, docs, tmpf, ret, added, wrote,
                 faults, late, tempAssets, finalAssetPaths, dlok, assetTemps,
                 orphanTemps, assetFiles, requests, lastRead,
                 stagedTemps, assetSource, extVars>>

\* the entries of the run's feeds are exhausted
FeedEnd(p) ==
  /\ pc[p] = "idle"
  /\ pc' = [pc EXCEPT ![p] = "done"]
  /\ UNCHANGED <<cur, ran, txn, snap, writer, posts, docs, tmpf, ret, added,
                 wrote, faults, late, tempAssets, finalAssetPaths, dlok,
                 assetTemps, orphanTemps, assetFiles, requests, lastRead,
                 stagedTemps, assetSource, extVars>>

\* the temp files of temp_assets: the k-th staged download of an entry
TempsOf(i, staged) == {<<i, k>> : k \in 1..Len(staged)}

\* process_feed from the download loop to the call of atomic_write_post:
\* download_to_temp has created one temp file per enclosure and handed over
\* staged; final_asset_path is asked for each staged file in turn, nothing
\* being placed in between.  completed counts the finished HTTP downloads.
Stage(p, staged, completed) ==
  /\ tempAssets' = [tempAssets EXCEPT ![p] = staged]
  /\ finalAssetPaths' = [finalAssetPaths EXCEPT ![p] =
       [k \in 1..Len(staged) |->
          FinalAssetPath(assetFiles, FinalPath(Item(p)), Basename(staged[k]))]]
  /\ dlok' = [dlok EXCEPT ![p] = completed]
  /\ assetTemps' = [assetTemps EXCEPT ![p] =
       Len(Item(p).enclosures) - Len(staged)]
  /\ stagedTemps' = [stagedTemps EXCEPT ![p] = @ \cup TempsOf(cur[p], staged)]
  /\ pc' = [pc EXCEPT ![p] = "mktemp"]
  /\ UNCHANGED <<cur, ran, txn, snap, writer, posts, docs, tmpf, ret, added,
                 wrote, faults, late, orphanTemps, assetFiles, requests,
                 lastRead, assetSource, extVars>>

\* download every enclosure to a temp file, then compute the final paths
StageAssets(p) ==
  /\ pc[p] = "stage"
  /\ \E transport \in [1..Len(Item(p).enclosures) -> {"ok", "error"}] :
       Stage(p, StagedOf(Item(p).enclosures, transport, 1),
             Cardinality({k \in DOMAIN transport : transport[k] = "ok"}))

\* the enclosures picked by keep, in order
RECURSIVE Picked(_, _, _)
Picked(enclosures, keep, k) ==
  IF k > Len(enclosures) THEN << >>
  ELSE IF keep[k] THEN <<enclosures[k]>> \o Picked(enclosures, keep, k + 1)
       ELSE Picked(enclosures, keep, k + 1)

\* process_feed from the loop over temp_assets on, for every temp_assets a
\* download loop whose downloads get written would hand over
StageGiven(p) ==
  /\ pc[p] = "stage"
  /\ \E keep \in [1..Len(Item(p).enclosures) -> BOOLEAN] :
       Stage(p, Picked(Item(p).enclosures, keep, 1),
             Cardinality({k \in DOMAIN keep : keep[k]}))

\* MkTemp with the document opened at its final path
MkTempAtFinal(p) ==
  /\ pc[p] = "mktemp"
  /\ tmpf' = [tmpf EXCEPT ![p] = EmptyDoc]
  /\ docs' = [docs EXCEPT ![FinalPath(Item(p))] = EmptyDoc]
  /\ pc' = [pc EXCEPT ![p] = "write"]
  /\ UNCHANGED <<cur, ran, txn, snap, writer, posts, ret, added, wrote,
                 faults, late, tempAssets, finalAssetPaths, dlok, assetTemps,
                 orphanTemps, assetFiles, requests, lastRead,
                 stagedTemps, assetSource, extVars>>

\* atomic_write_post: render, tempfile.mkstemp(prefix="mdtmp_", dir=output_dir)
MkTemp(p) ==
  /\ pc[p] = "mktemp"
  /\ tmpf' = [tmpf EXCEPT ![p] = EmptyDoc]
  /\ pc' = [pc EXCEPT ![p] = "write"]
  /\ UNCHANGED <<cur, ran, txn, snap, writer, posts, docs, ret, added, wrote,
                 faults, late, tempAssets, finalAssetPaths, dlok, assetTemps,
                 orphanTemps, assetFiles, requests, lastRead,
                 stagedTemps, assetSource, extVars>>

\* atomic_write_post: open(tmp_path, "w"); fh.write(content)
WriteContent(p) ==
  /\ pc[p] = "write"
  /\ tmpf' = [tmpf EXCEPT ![p] = Render(cur[p], finalAssetPaths[p])]
  /\ pc' = [pc EXCEPT ![p] = "begin"]
  /\ UNCHANGED <<cur, ran, txn, snap, writer, posts, docs, ret, added, wrote,
                 faults, late, tempAssets, finalAssetPaths, dlok, assetTemps,
                 orphanTemps, assetFiles, requests, lastRead,
                 stagedTemps, assetSource, extVars>>

\* atomic_write_post: BEGIN and the two SELECTs of the in-transaction check.
\* BEGIN inside an open transaction raises OperationalError, which only the
\* outer handler catches: remove the temp file and re-raise.  A row found:
\* ROLLBACK, os.remove(tmp_path), return None.
BeginTxn(p) ==
  /\ pc[p] = "begin"
  /\ IF txn[p] # "none"
       THEN /\ tmpf' = [tmpf EXCEPT ![p] = RemoveTmp(@)]
            /\ ret' = [ret EXCEPT ![p] = "Raised"]
            /\ pc' = [pc EXCEPT ![p] = "failed"]
            /\ UNCHANGED <<txn, snap>>
       ELSE IF ExistsGuidOrFp(posts, Item(p).guid, Item(p).fingerprint)
         THEN /\ txn' = [txn EXCEPT ![p] = "none"]
              /\ tmpf' = [tmpf EXCEPT ![p] = RemoveTmp(@)]
              /\ ret' = [ret EXCEPT ![p] = "Duplicate"]
              /\ pc' = [pc EXCEPT ![p] = "discard"]
              /\ UNCHANGED snap
         ELSE /\ txn' = [txn EXCEPT ![p] = "read"]
              /\ snap' = [snap EXCEPT ![p] = Len(posts)]
              /\ pc' = [pc EXCEPT ![p] = "insert"]
              /\ UNCHANGED <<tmpf, ret>>
  /\ UNCHANGED <<cur, ran, writer, posts, docs, added, wrote, faults, late,
                 tempAssets, finalAssetPaths, dlok, assetTemps, orphanTemps,
                 assetFiles, requests, lastRead,
                 stagedTemps, assetSource, extVars>>

\* the INSERT that also renames the temporary file to the final path, before
\* the COMMIT
InsertAndRename(p) ==
  /\ pc[p] = "insert"
  /\ IF writer # NoProc \/ snap[p] < Len(posts)
       THEN /\ tmpf' = [tmpf EXCEPT ![p] = RemoveTmp(@)]
            /\ ret' = [ret EXCEPT ![p] = "Raised"]
            /\ pc' = [pc EXCEPT ![p] = "failed"]
            /\ UNCHANGED <<txn, writer, docs>>
       ELSE IF UniqueViolation(View(p), PostRow(Item(p)))
         THEN /\ txn' = [txn EXCEPT ![p] = "none"]
              /\ tmpf' = [tmpf EXCEPT ![p] = RemoveTmp(@)]
              /\ ret' = [ret EXCEPT ![p] = "Duplicate"]
              /\ pc' = [pc EXCEPT ![p] = "discard"]
              /\ UNCHANGED <<writer, docs>>
         ELSE /\ txn' = [txn EXCEPT ![p] = "write"]
              /\ writer' = p
              /\ docs' = [docs EXCEPT ![FinalPath(Item(p))] = tmpf[p]]
              /\ pc' = [pc EXCEPT ![p] = "commit"]
              /\ UNCHANGED <<tmpf, ret>>
  /\ UNCHANGED <<cur, ran, snap, posts, added, wrote, faults, late,
                 tempAssets, finalAssetPaths, dlok, assetTemps, orphanTemps,
                 assetFiles, requests, lastRead,
                 stagedTemps, assetSource, extVars>>

\* atomic_write_post: the INSERT.  A read transaction cannot be promoted to a
\* write transaction while another connection holds the write lock or has
\* committed since the snapshot: SQLITE_BUSY, raised as OperationalError (the
\* busy timeout does not apply).  Only IntegrityError is handled as a
\* duplicate; OperationalError reaches the outer handler, which removes the
\* temp file and re-raises, and the transaction stays open.
Insert(p) ==
  /\ pc[p] = "insert"
  /\ IF writer # NoProc \/ snap[p] < Len(posts)
       THEN /\ tmpf' = [tmpf EXCEPT ![p] = RemoveTmp(@)]
            /\ ret' = [ret EXCEPT ![p] = "Raised"]
            /\ pc' = [pc EXCEPT ![p] = "failed"]
            /\ UNCHANGED <<txn, writer>>
       ELSE IF UniqueViolation(View(p), PostRow(Item(p)))
         THEN /\ txn' = [txn EXCEPT ![p] = "none"]
              /\ tmpf' = [tmpf EXCEPT ![p] = RemoveTmp(@)]
              /\ ret' = [ret EXCEPT ![p] = "Duplicate"]
              /\ pc' = [pc EXCEPT ![p] = "discard"]
              /\ UNCHANGED writer
         ELSE /\ txn' = [txn EXCEPT ![p] = "write"]
              /\ writer' = p
              /\ pc' = [pc EXCEPT ![p] = "commit"]
              /\ UNCHANGED <<tmpf, ret>>
  /\ UNCHANGED <<cur, ran, snap, posts, docs, added, wrote, faults, late,
                 tempAssets, finalAssetPaths, dlok, assetTemps, orphanTemps,
                 assetFiles, requests, lastRead,
                 stagedTemps, assetSource, extVars>>

\* atomic_write_post: COMMIT
Commit(p) ==
  /\ pc[p] = "commit"
  /\ posts' = Append(posts, PostRow(Item(p)))
  /\ writer' = NoProc
  /\ txn' = [txn EXCEPT ![p] = "none"]
  /\ added' = [added EXCEPT ![p] = @ + 1]
  /\ pc' = [pc EXCEPT ![p] = "replace"]
  /\ UNCHANGED <<cur, ran, snap, docs, tmpf, ret, wrote, faults, late,
                 tempAssets, finalAssetPaths, dlok, assetTemps, orphanTemps,
                 assetFiles, requests, lastRead,
                 stagedTemps, assetSource, extVars>>

\* atomic_write_post: os.replace(tmp_path, final_path); return final_path
Replace(p) ==
  /\ pc[p] = "replace"
  /\ docs' = [docs EXCEPT ![FinalPath(Item(p))] = tmpf[p]]
  /\ tmpf' = [tmpf EXCEPT ![p] = NoFile]
  /\ ret' = [ret EXCEPT ![p] = "Written"]
  /\ wrote' = [wrote EXCEPT ![p] = TRUE]
  /\ pc' = [pc EXCEPT ![p] = "assets"]
  /\ UNCHANGED <<cur, ran, txn, snap, writer, posts, added, faults, late,
                 tempAssets, finalAssetPaths, dlok, assetTemps, orphanTemps,
                 assetFiles, requests, lastRead,
                 stagedTemps, assetSource, extVars>>

\* the temp file and the url of the staged asset the move loop is at
MovingTemp(p) ==
  <<cur[p], Len(tempAssets[p]) - Len(finalAssetPaths[p]) + 1>>
MovingUrl(p) ==
  tempAssets[p][Len(tempAssets[p]) - Len(finalAssetPaths[p]) + 1]

\* the final path the move loop is at (finalAssetPaths holds what is left)
MovingFinal(p) == <<FinalPath(Item(p)), Head(finalAssetPaths[p])>>

\* process_feed after Written, the move loop is through: print, next entry
FinalizeAssets(p) ==
  /\ pc[p] = "assets"
  /\ finalAssetPaths[p] = << >>
  /\ assetTemps' = [assetTemps EXCEPT ![p] = 0]
  /\ orphanTemps' = (orphanTemps \/ assetTemps[p] > 0)
  /\ ItemDone(p)
  /\ UNCHANGED <<ran, txn, snap, writer, posts, docs, tmpf, faults, late,
                 assetFiles, requests, lastRead, stagedTemps, assetSource,
                 extVars>>

\* the move loop, final.exists(): an occupied destination drops the staged
\* copy (tf.unlink(); continue)
CheckFinal(p) ==
  /\ pc[p] = "assets"
  /\ finalAssetPaths[p] # << >>
  /\ IF MovingFinal(p) \in assetFiles
       THEN /\ stagedTemps' = [stagedTemps EXCEPT ![p] = @ \ {MovingTemp(p)}]
            /\ finalAssetPaths' = [finalAssetPaths EXCEPT ![p] = Tail(@)]
            /\ UNCHANGED pc
       ELSE /\ pc' = [pc EXCEPT ![p] = "move"]
            /\ UNCHANGED <<stagedTemps, finalAssetPaths>>
  /\ UNCHANGED <<cur, ran, txn, snap, writer, posts, docs, tmpf, ret, added,
                 wrote, faults, late, tempAssets, dlok, assetTemps,
                 orphanTemps, assetFiles, requests, lastRead, assetSource,
                 extVars>>

\* MoveFails with the exception leaving the loop
MoveFailsAborts(p) ==
  /\ pc[p] = "move"
  /\ pc' = [pc EXCEPT ![p] = "failed"]
  /\ UNCHANGED <<cur, ran, txn, snap, writer, posts, docs, tmpf, ret, added,
                 wrote, faults, late, tempAssets, finalAssetPaths, dlok,
                 assetTemps, orphanTemps, assetFiles, requests, lastRead,
                 stagedTemps, assetSource, extVars>>

\* the move loop, os.replace(tf, final): the rename puts the staged copy at
\* the final path, in place of whatever is there by now
MoveAsset(p) ==
  /\ pc[p] = "move"
  /\ assetFiles' = assetFiles \cup {MovingFinal(p)}
  /\ assetSource' = {e \in assetSource : e[1] # MovingFinal(p)}
                      \cup {<<MovingFinal(p), <<cur[p], MovingUrl(p)>> >>}
  /\ stagedTemps' = [stagedTemps EXCEPT ![p] = @ \ {MovingTemp(p)}]
  /\ finalAssetPaths' = [finalAssetPaths EXCEPT ![p] = Tail(@)]
  /\ pc' = [pc EXCEPT ![p] = "assets"]
  /\ UNCHANGED <<cur, ran, txn, snap, writer, posts, docs, tmpf, ret, added,
                 wrote, faults, late, tempAssets, dlok, assetTemps,
                 orphanTemps, requests, lastRead, extVars>>

\* the move loop, os.replace raises: tf.unlink(), on to the next asset
MoveFails(p) ==
  /\ pc[p] = "move"
  /\ stagedTemps' = [stagedTemps EXCEPT ![p] = @ \ {MovingTemp(p)}]
  /\ finalAssetPaths' = [finalAssetPaths EXCEPT ![p] = Tail(@)]
  /\ pc' = [pc EXCEPT ![p] = "assets"]
  /\ UNCHANGED <<cur, ran, txn, snap, writer, posts, docs, tmpf, ret, added,
                 wrote, faults, late, tempAssets, dlok, assetTemps,
                 orphanTemps, assetFiles, requests, lastRead, assetSource,
                 extVars>>

\* DiscardAssets without the unlink of the temp assets
DiscardKeepsTemps(p) ==
  /\ pc[p] = "discard"
  /\ assetTemps' = [assetTemps EXCEPT ![p] = 0]
  /\ orphanTemps' = (orphanTemps \/ assetTemps[p] > 0)
  /\ ItemDone(p)
  /\ UNCHANGED <<ran, txn, snap, writer, posts, docs, tmpf, faults, late,
                 assetFiles, requests, lastRead, stagedTemps, assetSource,
                 extVars>>

\* process_feed after None (duplicate): unlink the temp assets, continue
DiscardAssets(p) ==
  /\ pc[p] = "discard"
  /\ stagedTemps' = [stagedTemps EXCEPT ![p] =
       @ \ TempsOf(cur[p], tempAssets[p])]
  /\ assetTemps' = [assetTemps EXCEPT ![p] = 0]
  /\ orphanTemps' = (orphanTemps \/ assetTemps[p] > 0)
  /\ ItemDone(p)
  /\ UNCHANGED <<ran, txn, snap, writer, posts, docs, tmpf, faults, late,
                 assetFiles, requests, lastRead, assetSource, extVars>>

\* process_feed, except Exception at the item level: print, continue; the
\* temp assets are not unlinked
ItemError(p) ==
  /\ pc[p] = "failed"
  /\ assetTemps' = [assetTemps EXCEPT ![p] = 0]
  /\ orphanTemps' = (orphanTemps \/ assetTemps[p] > 0)
  /\ ItemDone(p)
  /\ UNCHANGED <<ran, txn, snap, writer, posts, docs, tmpf, faults, late,
                 assetFiles, requests, lastRead, stagedTemps, assetSource,
                 extVars>>

\* news_feeder.list_markdown_files / view_markdown: frontmatter.load of a
\* file at a final path
ReadDocument ==
  /\ \E path \in DocPaths :
       /\ docs[path].exists
       /\ lastRead' = IF docs[path].full THEN lastRead ELSE "partial"
  /\ UNCHANGED <<pc, cur, ran, txn, snap, writer, posts, docs, tmpf, ret,
                 added, wrote, faults, late, tempAssets,
                 finalAssetPaths, dlok, assetTemps, orphanTemps, assetFiles,
                 requests, stagedTemps, assetSource, extVars>>

(* ---------------------------------------------------------------------- *)
(* FeedFetcher.parse_item: the fingerprint and the published instant       *)
(* ---------------------------------------------------------------------- *)

\* A text is a sequence of characters.
Chars == {"a", "b", " ", "\n"}

\* what \s matches and str.strip() strips
IsSpace(c) == c \in {" ", "\n"}

RECURSIVE LStrip(_)
LStrip(s) ==
  IF s # << >> /\ IsSpace(Head(s)) THEN LStrip(Tail(s)) ELSE s

RECURSIVE RStrip(_)
RStrip(s) ==
  IF s # << >> /\ IsSpace(s[Len(s)]) THEN RStrip(SubSeq(s, 1, Len(s) - 1))
  ELSE s

\* content.strip()
Strip(s) == RStrip(LStrip(s))

\* re.sub without the substitution
KeepWhitespace(s) == s

RECURSIVE Collapse(_)
\* re.sub(r'\s+', ' ', content): every run of whitespace becomes one space
Collapse(s) ==
  IF s = << >> THEN << >>
  ELSE IF IsSpace(Head(s)) THEN <<" ">> \o Collapse(LStrip(Tail(s)))
       ELSE <<Head(s)>> \o Collapse(Tail(s))

\* s[:n]
Slice(s, n) == SubSeq(s, 1, IF Len(s) < n THEN Len(s) ELSE n)

\* sha256_hex, taken as injective: the digest stands for the text hashed
Sha256Hex(s) == [sha256 |-> s]

\* the title and the link of the entries of SpecParse
EntryTitle == <<"Z", "e", "r", "o">>
EntryLink == <<"u", "r", "l">>

\* parse_item: content.strip(), then
\* sha256_hex(title + "|" + link + "|" + re.sub(r'\s+', ' ', content)[:2000])
Fingerprint(title, link, content) ==
  Sha256Hex(title \o <<"|">> \o link \o <<"|">>
            \o Slice(Collapse(Strip(content)), FingerprintChars))

\* a datetime: the instant in ticks, and whether it carries the UTC tzinfo
Utc(t) == [t |-> t, tzinfo |-> "utc"]
Naive(t) == [t |-> t, tzinfo |-> "none"]

\* datetime.now(timezone.utc)
DatetimeNow == Utc(clock)

\* entry.get("published_parsed") or entry.get("updated_parsed"): a
\* struct_time, shortened to its instant, or nothing
NoTime == << >>
PubParsedValues == {NoTime} \cup {<<t>> : t \in 0..MaxClock}

\* published_dt: datetime(*pub_parsed[:6]) if pub_parsed else now
PublishedDt(pub_parsed) ==
  IF pub_parsed # NoTime THEN Naive(pub_parsed[1]) ELSE now

\* dt.isoformat(): the instant, followed by the offset of an aware datetime
IsoFormat(dt) ==
  <<dt.t>> \o (IF dt.tzinfo = "utc" THEN <<"+00:00">> ELSE << >>)

\* dt.strftime("%Y-%m-%d"): the calendar day of the instant
StrfDate(dt) == dt.t \div TicksPerDay

\* parse_item for the next entry handed over: content.strip() and the
\* fingerprint, published_dt, published_iso and published_date_str; `at` is
\* the wall clock when the entry's feed was fetched and the entry parsed
ParseItem ==
  /\ Len(fingerprints) < Len(contents)
  /\ LET k == Len(fingerprints) + 1
         published_dt == PublishedDt(pubParsed[k])
     IN /\ fingerprints' =
             Append(fingerprints,
                    Fingerprint(EntryTitle, EntryLink, contents[k]))
        /\ published' =
             Append(published,
                    [at |-> clock,
                     published_dt |-> published_dt,
                     published_iso |-> IsoFormat(published_dt) \o <<"Z">>,
                     published_date_str |-> StrfDate(published_dt)])
  /\ UNCHANGED <<pc, cur, ran, txn, snap, writer, posts, docs, tmpf, ret,
                 added, wrote, faults, late, tempAssets, finalAssetPaths,
                 dlok, assetTemps, orphanTemps, assetFiles, requests,
                 lastRead, stagedTemps, assetSource, fetched, contents,
                 clock, now, pubParsed>>

\* time passes between two requests of the process
Tick ==
  /\ clock < MaxClock
  /\ clock' = clock + 1
  /\ UNCHANGED <<pc, cur, ran, txn, snap, writer, posts, docs, tmpf, ret,
                 added, wrote, faults, late, tempAssets, finalAssetPaths,
                 dlok, assetTemps, orphanTemps, assetFiles, requests,
                 lastRead, stagedTemps, assetSource, fetched, contents,
                 fingerprints, now, pubParsed, published>>

(* ---------------------------------------------------------------------- *)
(* RssToMdApp.run and FeedFetcher.fetch                                    *)
(* ---------------------------------------------------------------------- *)

\* what the HTTP request of a feed can end in
FetchOutcomes == {"ok", "network", "timeout", "status", "unparsable"}

\* FeedFetcher.fetch: get, raise_for_status, feedparser.parse; any exception
\* is printed and the method falls off its end (None).  feedparser.parse
\* does not raise on a body that is no feed: it returns a result without
\* entries.
FetchResult(outcome) ==
  CASE outcome = "ok"         -> "entries"
    [] outcome = "unparsable" -> "no entries"
    [] OTHER                  -> "None"

\* Fetch with the exception of a failed fetch ending the run
AfterFetchDies(outcome) ==
  IF FetchResult(outcome) = "entries" THEN "idle"
  ELSE IF FetchResult(outcome) = "None" THEN "done" ELSE "feeds"

\* process_feed up to the loop over the entries: parsed.feed of None raises
\* AttributeError, which leaves process_feed and is caught in run; a result
\* without entries has nothing to loop over.  Either way run takes the next
\* feed.
AfterFetch(outcome) ==
  IF FetchResult(outcome) = "entries" THEN "idle" ELSE "feeds"

\* run: the next feed of the list; process_feed: fetch
Fetch(p) ==
  /\ pc[p] = "feeds"
  /\ Len(fetched[p]) < MaxFeeds
  /\ \E outcome \in FetchOutcomes :
       /\ fetched' = [fetched EXCEPT ![p] = Append(@, outcome)]
       /\ pc' = [pc EXCEPT ![p] = AfterFetch(outcome)]
  /\ UNCHANGED <<cur, ran, txn, snap, writer, posts, docs, tmpf, ret, added,
                 wrote, faults, late, tempAssets, finalAssetPaths, dlok,
                 assetTemps, orphanTemps, assetFiles, requests, lastRead,
                 stagedTemps, assetSource, contents, fingerprints,
                 clock, now, pubParsed, published>>

\* process_feed: the entries of the feed are through, back in run
FeedReturn(p) ==
  /\ pc[p] = "idle"
  /\ pc' = [pc EXCEPT ![p] = "feeds"]
  /\ UNCHANGED <<cur, ran, txn, snap, writer, posts, docs, tmpf, ret, added,
                 wrote, faults, late, tempAssets, finalAssetPaths, dlok,
                 assetTemps, orphanTemps, assetFiles, requests, lastRead,
                 stagedTemps, assetSource, extVars>>

\* run: the list of feeds is through
RunEnd(p) ==
  /\ pc[p] = "feeds"
  /\ Len(fetched[p]) = MaxFeeds
  /\ pc' = [pc EXCEPT ![p] = "done"]
  /\ UNCHANGED <<cur, ran, txn, snap, writer, posts, docs, tmpf, ret, added,
                 wrote, faults, late, tempAssets, finalAssetPaths, dlok,
                 assetTemps, orphanTemps, assetFiles, requests, lastRead,
                 stagedTemps, assetSource, extVars>>

(* ---------------------------------------------------------------------- *)
(* Interruptions: a run is killed, or the rename of the document fails     *)
(* ---------------------------------------------------------------------- *)

\* the process dies: its connection closes (an open transaction is rolled
\* back, the write lock released), its files stay where they are
Kill(p) ==
  /\ pc[p] \notin {"boot", "done", "dead"}
  /\ faults < MaxFaults
  /\ faults' = faults + 1
  /\ pc' = [pc EXCEPT ![p] = "dead"]
  /\ txn' = [txn EXCEPT ![p] = "none"]
  /\ writer' = IF writer = p THEN NoProc ELSE writer
  /\ assetTemps' = [assetTemps EXCEPT ![p] = 0]
  /\ orphanTemps' = (orphanTemps \/ assetTemps[p] > 0)
  /\ UNCHANGED <<cur, ran, snap, posts, docs, tmpf, ret, added, wrote, late,
                 tempAssets, finalAssetPaths, dlok, assetFiles, requests,
                 lastRead,
                 stagedTemps, assetSource, extVars>>

\* the program is started again over the same feeds, after an interruption
Restart(p) ==
  /\ pc[p] \in {"dead", "done"}
  /\ faults > 0
  /\ ~late[p]
  /\ ran' = [ran EXCEPT ![p] = {}]
  /\ tmpf' = [tmpf EXCEPT ![p] = NoFile]
  /\ pc' = [pc EXCEPT ![p] = "boot"]
  /\ cur' = [cur EXCEPT ![p] = NoItem]
  /\ ret' = [ret EXCEPT ![p] = "-"]
  /\ added' = [added EXCEPT ![p] = 0]
  /\ wrote' = [wrote EXCEPT ![p] = FALSE]
  /\ dlok' = [dlok EXCEPT ![p] = 0]
  /\ tempAssets' = [tempAssets EXCEPT ![p] = << >>]
  /\ finalAssetPaths' = [finalAssetPaths EXCEPT ![p] = << >>]
  /\ UNCHANGED <<txn, snap, writer, posts, docs, faults, late, assetTemps,
                 orphanTemps, assetFiles, requests, lastRead,
                 stagedTemps, assetSource, extVars>>

\* os.replace raises OSError after the COMMIT: the outer handler removes the
\* temp file and re-raises
ReplaceFails(p) ==
  /\ pc[p] = "replace"
  /\ faults < MaxFaults
  /\ faults' = faults + 1
  /\ tmpf' = [tmpf EXCEPT ![p] = RemoveTmp(@)]
  /\ ret' = [ret EXCEPT ![p] = "Raised"]
  /\ pc' = [pc EXCEPT ![p] = "failed"]
  /\ UNCHANGED <<cur, ran, txn, snap, writer, posts, docs, added, wrote, late,
                 tempAssets, finalAssetPaths, dlok, assetTemps, orphanTemps,
                 assetFiles, requests, lastRead,
                 stagedTemps, assetSource, extVars>>

(* ---------------------------------------------------------------------- *)
(* The asset paths of one destination directory, as a caller of            *)
(* final_asset_path sees them (SpecAssets)                                  *)
(* ---------------------------------------------------------------------- *)

AssetDir == <<"2024-03-01", "zero-day-found">>

\* file names other content may already occupy in the directory
AssetNames ==
  {<<"image">>, <<"image", 1>>, <<"image", 2>>, <<"image", 1, 2>>,
   <<"image", 3>>, <<"image", 1, 2, 3>>}

\* process_feed, one pass of the loop over temp_assets: final_asset_path
RequestFinalPath(filename) ==
  /\ Len(requests) < MaxRequests
  /\ requests' = Append(requests,
       [filename |-> filename,
        dest |-> FinalAssetPath(assetFiles, AssetDir, filename),
        occupied |-> {f \in AssetNames : <<AssetDir, f>> \in assetFiles},
        state |-> "planned"])
  /\ UNCHANGED <<pc, cur, ran, txn, snap, writer, posts, docs, tmpf, ret,
                 added, wrote, faults, late, tempAssets,
                 finalAssetPaths, dlok, assetTemps, orphanTemps, assetFiles, lastRead,
                 stagedTemps, assetSource, extVars>>

\* process_feed, one pass of the loop over final_asset_paths: the staged
\* copy is dropped when final.exists(), moved with os.replace otherwise
MoveStaged ==
  /\ \E k \in 1..Len(requests) :
       /\ requests[k].state = "planned"
       /\ \A j \in 1..(k - 1) : requests[j].state # "planned"
       /\ IF <<AssetDir, requests[k].dest>> \in assetFiles
            THEN /\ requests' = [requests EXCEPT ![k].state = "discarded"]
                 /\ UNCHANGED assetFiles
            ELSE /\ requests' = [requests EXCEPT ![k].state = "moved"]
                 /\ assetFiles' = assetFiles \cup {<<AssetDir, requests[k].dest>>}
  /\ UNCHANGED <<pc, cur, ran, txn, snap, writer, posts, docs, tmpf, ret,
                 added, wrote, faults, late, tempAssets,
                 finalAssetPaths, dlok, assetTemps, orphanTemps, lastRead,
                 stagedTemps, assetSource, extVars>>

Init ==
  /\ pc = [p \in Procs |-> "boot"]
  /\ cur = [p \in Procs |-> NoItem]
  /\ ran = [p \in Procs |-> {}]
  /\ txn = [p \in Procs |-> "none"]
  /\ snap = [p \in Procs |-> 0]
  /\ writer = NoProc
  /\ posts = << >>
  /\ docs = [path \in DocPaths |-> NoFile]
  /\ tmpf = [p \in Procs |-> NoFile]
  /\ ret = [p \in Procs |-> "-"]
  /\ added = [p \in Procs |-> 0]
  /\ wrote = [p \in Procs |-> FALSE]
  /\ faults = 0
  /\ late = [p \in Procs |-> FALSE]
  /\ tempAssets = [p \in Procs |-> << >>]
  /\ finalAssetPaths = [p \in Procs |-> << >>]
  /\ dlok = [p \in Procs |-> 0]
  /\ assetTemps = [p \in Procs |-> 0]
  /\ orphanTemps = FALSE
  /\ assetFiles = {}
  /\ requests = << >>
  /\ lastRead = "nothing"
  /\ stagedTemps = [p \in Procs |-> {}]
  /\ assetSource = {}
  /\ fetched = [p \in Procs |-> << >>]
  /\ contents = << >>
  /\ fingerprints = << >>
  /\ clock = 0
  /\ now = Utc(0)
  /\ pubParsed = << >>
  /\ published = << >>

Next ==
  \/ \E p \in Procs :
       \/ Start(p)
       \/ Precheck(p)
       \/ FeedEnd(p)
       \/ StageAssets(p)
       \/ MkTemp(p)
       \/ WriteContent(p)
       \/ BeginTxn(p)
       \/ Insert(p)
       \/ Commit(p)
       \/ Replace(p)
       \/ FinalizeAssets(p)
       \/ DiscardAssets(p)
       \/ ItemError(p)
  \/ ReadDocument

Spec == Init /\ [][Next]_vars

NextInterrupt ==
  \/ Next
  \/ \E p \in Procs :
       \/ Kill(p)
       \/ Restart(p)
       \/ ReplaceFails(p)

\* one run at first; runs started again once it has been interrupted
InitInterrupt ==
  /\ pc = [p \in Procs |-> IF p = "run1" THEN "boot" ELSE "done"]
  /\ cur = [p \in Procs |-> NoItem]
  /\ ran = [p \in Procs |-> {}]
  /\ txn = [p \in Procs |-> "none"]
  /\ snap = [p \in Procs |-> 0]
  /\ writer = NoProc
  /\ posts = << >>
  /\ docs = [path \in DocPaths |-> NoFile]
  /\ tmpf = [p \in Procs |-> NoFile]
  /\ ret = [p \in Procs |-> "-"]
  /\ added = [p \in Procs |-> 0]
  /\ wrote = [p \in Procs |-> FALSE]
  /\ faults = 0
  /\ late = [p \in Procs |-> FALSE]
  /\ tempAssets = [p \in Procs |-> << >>]
  /\ finalAssetPaths = [p \in Procs |-> << >>]
  /\ dlok = [p \in Procs |-> 0]
  /\ assetTemps = [p \in Procs |-> 0]
  /\ orphanTemps = FALSE
  /\ assetFiles = {}
  /\ requests = << >>
  /\ lastRead = "nothing"
  /\ stagedTemps = [p \in Procs |-> {}]
  /\ assetSource = {}
  /\ fetched = [p \in Procs |-> << >>]
  /\ contents = << >>
  /\ fingerprints = << >>
  /\ clock = 0
  /\ now = Utc(0)
  /\ pubParsed = << >>
  /\ published = << >>

\* the runs with interruptions
SpecInterrupt == InitInterrupt /\ [][NextInterrupt]_vars

InitAssets ==
  /\ pc = [p \in Procs |-> "boot"]
  /\ cur = [p \in Procs |-> NoItem]
  /\ ran = [p \in Procs |-> {}]
  /\ txn = [p \in Procs |-> "none"]
  /\ snap = [p \in Procs |-> 0]
  /\ writer = NoProc
  /\ posts = << >>
  /\ docs = [path \in DocPaths |-> NoFile]
  /\ tmpf = [p \in Procs |-> NoFile]
  /\ ret = [p \in Procs |-> "-"]
  /\ added = [p \in Procs |-> 0]
  /\ wrote = [p \in Procs |-> FALSE]
  /\ faults = 0
  /\ late = [p \in Procs |-> FALSE]
  /\ tempAssets = [p \in Procs |-> << >>]
  /\ finalAssetPaths = [p \in Procs |-> << >>]
  /\ dlok = [p \in Procs |-> 0]
  /\ assetTemps = [p \in Procs |-> 0]
  /\ orphanTemps = FALSE
  /\ assetFiles \in SUBSET {<<AssetDir, f>> : f \in AssetNames}
  /\ requests = << >>
  /\ lastRead = "nothing"
  /\ stagedTemps = [p \in Procs |-> {}]
  /\ assetSource = {}
  /\ fetched = [p \in Procs |-> << >>]
  /\ contents = << >>
  /\ fingerprints = << >>
  /\ clock = 0
  /\ now = Utc(0)
  /\ pubParsed = << >>
  /\ published = << >>

NextAssets ==
  \/ \E filename \in {<<"image">>, <<"image", 1>>} : RequestFinalPath(filename)
  \/ MoveStaged

\* final_asset_path and the asset moves over one directory
SpecAssets == InitAssets /\ [][NextAssets]_vars

\* one run (app.run() of __main__) at the head of its list of feeds
InitFeeds ==
  /\ pc = [p \in Procs |-> IF p = "run1" THEN "feeds" ELSE "done"]
  /\ cur = [p \in Procs |-> NoItem]
  /\ ran = [p \in Procs |-> {}]
  /\ txn = [p \in Procs |-> "none"]
  /\ snap = [p \in Procs |-> 0]
  /\ writer = NoProc
  /\ posts = << >>
  /\ docs = [path \in DocPaths |-> NoFile]
  /\ tmpf = [p \in Procs |-> NoFile]
  /\ ret = [p \in Procs |-> "-"]
  /\ added = [p \in Procs |-> 0]
  /\ wrote = [p \in Procs |-> FALSE]
  /\ faults = 0
  /\ late = [p \in Procs |-> FALSE]
  /\ tempAssets = [p \in Procs |-> << >>]
  /\ finalAssetPaths = [p \in Procs |-> << >>]
  /\ dlok = [p \in Procs |-> 0]
  /\ assetTemps = [p \in Procs |-> 0]
  /\ orphanTemps = FALSE
  /\ assetFiles = {}
  /\ requests = << >>
  /\ lastRead = "nothing"
  /\ stagedTemps = [p \in Procs |-> {}]
  /\ assetSource = {}
  /\ fetched = [p \in Procs |-> << >>]
  /\ contents = << >>
  /\ fingerprints = << >>
  /\ clock = 0
  /\ now = Utc(0)
  /\ pubParsed = << >>
  /\ published = << >>

NextFeeds ==
  \E p \in Procs :
    \/ Fetch(p)
    \/ Precheck(p)
    \/ StageAssets(p)
    \/ MkTemp(p)
    \/ WriteContent(p)
    \/ BeginTxn(p)
    \/ Insert(p)
    \/ Commit(p)
    \/ Replace(p)
    \/ FinalizeAssets(p)
    \/ FeedReturn(p)
    \/ RunEnd(p)

\* one run over its list of feeds; the interpreter keeps executing the run
\* (every request has a timeout), so a step that can be taken is taken
SpecFeeds == InitFeeds /\ [][NextFeeds]_vars /\ WF_vars(NextFeeds)

\* the texts of at most n characters
Texts(n) == UNION {[1..k -> Chars] : k \in 0..n}

\* two entries of a feed with the same title and link and any contents
InitParse ==
  /\ pc = [p \in Procs |-> "done"]
  /\ cur = [p \in Procs |-> NoItem]
  /\ ran = [p \in Procs |-> {}]
  /\ txn = [p \in Procs |-> "none"]
  /\ snap = [p \in Procs |-> 0]
  /\ writer = NoProc
  /\ posts = << >>
  /\ docs = [path \in DocPaths |-> NoFile]
  /\ tmpf = [p \in Procs |-> NoFile]
  /\ ret = [p \in Procs |-> "-"]
  /\ added = [p \in Procs |-> 0]
  /\ wrote = [p \in Procs |-> FALSE]
  /\ faults = 0
  /\ late = [p \in Procs |-> FALSE]
  /\ tempAssets = [p \in Procs |-> << >>]
  /\ finalAssetPaths = [p \in Procs |-> << >>]
  /\ dlok = [p \in Procs |-> 0]
  /\ assetTemps = [p \in Procs |-> 0]
  /\ orphanTemps = FALSE
  /\ assetFiles = {}
  /\ requests = << >>
  /\ lastRead = "nothing"
  /\ stagedTemps = [p \in Procs |-> {}]
  /\ assetSource = {}
  /\ fetched = [p \in Procs |-> << >>]
  /\ contents \in [1..2 -> Texts(MaxContent)]
  /\ fingerprints = << >>
  /\ clock = 0
  /\ now = Utc(0)
  /\ pubParsed = <<NoTime, NoTime>>
  /\ published = << >>

NextParse == ParseItem

\* parse_item applied to two entries
SpecParse == InitParse /\ [][NextParse]_vars

\* FeedFetcher has just been imported; the run goes through MaxFeeds feeds
\* with one entry each, dated or not
InitClock ==
  /\ pc = [p \in Procs |-> "done"]
  /\ cur = [p \in Procs |-> NoItem]
  /\ ran = [p \in Procs |-> {}]
  /\ txn = [p \in Procs |-> "none"]
  /\ snap = [p \in Procs |-> 0]
  /\ writer = NoProc
  /\ posts = << >>
  /\ docs = [path \in DocPaths |-> NoFile]
  /\ tmpf = [p \in Procs |-> NoFile]
  /\ ret = [p \in Procs |-> "-"]
  /\ added = [p \in Procs |-> 0]
  /\ wrote = [p \in Procs |-> FALSE]
  /\ faults = 0
  /\ late = [p \in Procs |-> FALSE]
  /\ tempAssets = [p \in Procs |-> << >>]
  /\ finalAssetPaths = [p \in Procs |-> << >>]
  /\ dlok = [p \in Procs |-> 0]
  /\ assetTemps = [p \in Procs |-> 0]
  /\ orphanTemps = FALSE
  /\ assetFiles = {}
  /\ requests = << >>
  /\ lastRead = "nothing"
  /\ stagedTemps = [p \in Procs |-> {}]
  /\ assetSource = {}
  /\ fetched = [p \in Procs |-> << >>]
  /\ contents = [k \in 1..MaxFeeds |-> <<"a">>]
  /\ fingerprints = << >>
  /\ clock = 0
  /\ now = DatetimeNow
  /\ pubParsed \in [1..MaxFeeds -> PubParsedValues]
  /\ published = << >>

NextClock ==
  \/ Tick
  \/ ParseItem

\* the entries of feeds fetched one after the other while time passes
SpecClock == InitClock /\ [][NextClock]_vars

\* the entries with enclosures
StagedItems == {i \in ItemIds : FeedItem(i).enclosures # << >>}

\* each run has taken one entry with enclosures past the precheck
InitStaged ==
  /\ pc = [p \in Procs |-> "stage"]
  /\ cur \in [Procs -> StagedItems]
  /\ ran = [p \in Procs |-> {cur[p]}]
  /\ txn = [p \in Procs |-> "none"]
  /\ snap = [p \in Procs |-> 0]
  /\ writer = NoProc
  /\ posts = << >>
  /\ docs = [path \in DocPaths |-> NoFile]
  /\ tmpf = [p \in Procs |-> NoFile]
  /\ ret = [p \in Procs |-> "-"]
  /\ added = [p \in Procs |-> 0]
  /\ wrote = [p \in Procs |-> FALSE]
  /\ faults = 0
  /\ late = [p \in Procs |-> FALSE]
  /\ tempAssets = [p \in Procs |-> << >>]
  /\ finalAssetPaths = [p \in Procs |-> << >>]
  /\ dlok = [p \in Procs |-> 0]
  /\ assetTemps = [p \in Procs |-> 0]
  /\ orphanTemps = FALSE
  /\ assetFiles = {}
  /\ requests = << >>
  /\ lastRead = "nothing"
  /\ stagedTemps = [p \in Procs |-> {}]
  /\ assetSource = {}
  /\ fetched = [p \in Procs |-> << >>]
  /\ contents = << >>
  /\ fingerprints = << >>
  /\ clock = 0
  /\ now = Utc(0)
  /\ pubParsed = << >>
  /\ published = << >>

NextStaged ==
  \E p \in Procs :
    \/ StageGiven(p)
    \/ MkTemp(p)
    \/ WriteContent(p)
    \/ BeginTxn(p)
    \/ Insert(p)
    \/ Commit(p)
    \/ Replace(p)
    \/ CheckFinal(p)
    \/ MoveAsset(p)
    \/ MoveFails(p)
    \/ FinalizeAssets(p)
    \/ DiscardAssets(p)
    \/ ItemError(p)
    \/ FeedEnd(p)

\* one entry per run from the loop over temp_assets on, the downloads of its
\* enclosures handed over
SpecStaged == InitStaged /\ [][NextStaged]_vars

(* ---------------------------------------------------------------------- *)
(* Properties                                                              *)
(* ---------------------------------------------------------------------- *)

RowsUnique(rows) ==
  \A j, k \in 1..Len(rows) :
    j # k => /\ rows[j].fingerprint # rows[k].fingerprint
             /\ rows[j].guid # NoGuid => rows[j].guid # rows[k].guid

IsPrefix(a, b) == Len(a) <= Len(b) /\ SubSeq(b, 1, Len(a)) = a

\* the rows of posts an item matches by guid or by fingerprint
Matching(i) ==
  {k \in 1..Len(posts) :
     \/ FeedItem(i).guid # NoGuid /\ posts[k].guid = FeedItem(i).guid
     \/ posts[k].fingerprint = FeedItem(i).fingerprint}

\* the run is inside atomic_write_post
InCommit(p) ==
  pc[p] \in {"mktemp", "write", "begin", "insert", "commit", "replace"}

AllDone == \A p \in Procs : pc[p] = "done"

\* C1: in every reachable state no two rows of posts share a non-null guid
\* and no two rows share a fingerprint, and every step leaves the rows
\* already in posts as they are (a row is never updated or deleted).
C1_RowsUniqueAndKept ==
  [][RowsUnique(posts') /\ IsPrefix(posts, posts')]_vars

\* C1 witness: two rows are committed while another commit is in flight.
C1_Witness ==
  /\ Len(posts) >= 2
  /\ \E p \in Procs : pc[p] = "insert"

RECURSIVE SequentialRun(_, _)
\* the rows one sequential run leaves after the entries of feed, in order
SequentialRun(rows, feed) ==
  IF feed = << >> THEN rows
  ELSE LET item == FeedItem(Head(feed))
       IN SequentialRun(
            IF ExistsGuidOrFp(rows, item.guid, item.fingerprint)
              THEN rows ELSE Append(rows, PostRow(item)),
            Tail(feed))

RECURSIVE Orders(_)
\* every order of the entries S
Orders(S) ==
  IF S = {} THEN {<< >>}
  ELSE UNION {{<<i>> \o o : o \in Orders(S \ {i})} : i \in S}

\* C2: once all concurrent runs have finished, posts holds as many rows as
\* one sequential run over the same entries leaves (in some order of them).
C2_ConcurrentCountIsSequential ==
  AllDone =>
    Len(posts) \in {Len(SequentialRun(<< >>, o)) :
                      o \in Orders(UNION {ran[p] : p \in Procs})}

\* C3: with no commit in flight there are as many documents at final paths
\* as rows in posts, and the document at each row's path is the one written
\* for that row (no later Written commit of another identity replaced it).
C3_OneDocumentPerRow ==
  (\A p \in Procs : ~InCommit(p)) =>
    /\ Cardinality({path \in DocPaths : docs[path].exists}) = Len(posts)
    /\ \A k \in 1..Len(posts) :
         /\ docs[posts[k].path].exists
         /\ FeedItem(docs[posts[k].path].item).fingerprint = posts[k].fingerprint

\* C4: a commit call ends in one of two ways: Duplicate, with a row of the
\* item's guid or fingerprint in posts and no row added by the call; or
\* Written, with exactly one row added, the only row of the item's guid or
\* fingerprint, carrying them and the path <date>-<title-slug>.md.
C4_DuplicateOrWritten ==
  \A p \in Procs :
    ret[p] # "-" =>
      \/ /\ ret[p] = "Duplicate"
         /\ Matching(cur[p]) # {}
         /\ added[p] = 0
      \/ /\ ret[p] = "Written"
         /\ added[p] = 1
         /\ Cardinality(Matching(cur[p])) = 1
         /\ \A k \in Matching(cur[p]) : posts[k] = PostRow(Item(p))

\* C5: a commit whose transaction was rolled back (the in-transaction check
\* found the guid or fingerprint, or the INSERT raised IntegrityError) has
\* returned Duplicate, its temporary document is gone, it has put no file at
\* the final path and has added no row.
C5_RollbackLeavesNothing ==
  \A p \in Procs :
    (pc[p] = "discard" \/ ret[p] = "Duplicate") =>
      /\ ret[p] = "Duplicate"
      /\ pc[p] = "discard"
      /\ txn[p] = "none"
      /\ ~tmpf[p].exists
      /\ ~wrote[p]
      /\ added[p] = 0

\* C5 witness: a commit was rolled back as a duplicate after its temporary
\* document had been written, the row being another run's.
C5_Witness ==
  \E p \in Procs :
    /\ pc[p] = "discard"
    /\ ret[p] = "Duplicate"
    /\ Matching(cur[p]) # {}

\* C6: a file at a final document path is a completely written document,
\* and the presentation layer has never loaded a partial one.
C6_FinalPathsComplete ==
  /\ \A path \in DocPaths : docs[path].exists => docs[path].full
  /\ lastRead # "partial"

\* C6 witness: a document is at its final path while another run's temporary
\* file for the same final path is still empty.
C6_Witness ==
  \E p \in Procs :
    /\ pc[p] = "write"
    /\ tmpf[p] = EmptyDoc
    /\ docs[FinalPath(Item(p))].exists

\* C7: when every run has ended, each entry taken by a run that started
\* after the interruption and ran to its end is in posts, and every row it
\* matches has its document at the row's path.
C7_PersistedAfterInterruption ==
  \A p \in Procs :
    (late[p] /\ pc[p] = "done" /\ \A q \in Procs : pc[q] \in {"done", "dead"}) =>
      \A i \in ran[p] :
        /\ Matching(i) # {}
        /\ \A k \in Matching(i) : docs[posts[k].path].exists

\* C8: after staging, every enclosure whose download completed is staged in
\* temp_assets, and the document of a Written commit references them all.
C8_CompletedDownloadsStaged ==
  \A p \in Procs :
    /\ (InCommit(p) \/ pc[p] = "assets") => Len(tempAssets[p]) = dlok[p]
    /\ pc[p] = "assets" => Len(docs[FinalPath(Item(p))].assets) = dlok[p]

\* C9: two final_asset_path requests for the same filename in the same
\* directory, with no file placed in between, return distinct paths, and
\* neither staged copy is discarded.
C9_SameFilenameDistinctPaths ==
  \A j, k \in 1..Len(requests) :
    (j < k /\ requests[j].filename = requests[k].filename
           /\ \A m \in j..k : requests[m].occupied = requests[j].occupied) =>
      /\ requests[j].dest # requests[k].dest
      /\ requests[k].state # "discarded"

\* name-k: the original name with the single suffix k (name itself for 0)
Numbered(filename, k) == IF k = 0 THEN filename ELSE Append(filename, k)

\* C10: final_asset_path returns a path no file occupies and creates no file;
\* with name, name-1 .. name-(k-1) occupied and name-k free it returns name-k.
C10_SingleIncrementingSuffix ==
  \A j \in 1..Len(requests) :
    LET r == requests[j]
    IN /\ r.dest \notin r.occupied
       /\ \A k \in 0..Cardinality(AssetNames) :
            (/\ \A m \in 0..(k - 1) : Numbered(r.filename, m) \in r.occupied
             /\ Numbered(r.filename, k) \notin r.occupied)
              => r.dest = Numbered(r.filename, k)

\* the run p takes the step
Steps(p) == pc'[p] # pc[p] \/ finalAssetPaths'[p] # finalAssetPaths[p]

\* C11: a step that places a file at a final asset path is a step of a run
\* whose commit of the item has returned Written; a run whose commit returned
\* Duplicate goes on to the next entry with none of the item's staged temp
\* files left and without having placed a file.
C11_AssetsPlacedAfterWritten ==
  [][\A p \in Procs :
       /\ (Steps(p) /\ assetFiles' # assetFiles) => ret[p] = "Written"
       /\ (Steps(p) /\ ret[p] = "Duplicate") =>
            /\ assetFiles' = assetFiles
            /\ stagedTemps'[p] \cap TempsOf(cur[p], tempAssets[p]) = {}]_vars

\* C11 witness: a run's commit has returned Duplicate with temp assets
\* staged, after the other run's Written commit placed its asset.
C11_Witness ==
  \E p \in Procs :
    /\ pc[p] = "discard"
    /\ ret[p] = "Duplicate"
    /\ stagedTemps[p] # {}
    /\ assetFiles # {}

\* C12: a fetch that fails (network error, timeout, bad status, unparsable
\* body) gives the run no entry of that feed and creates no row and no file,
\* the run goes on with the next feed, and the run eventually has invoked
\* process_feed for every feed of the list.
C12_FetchFailureSkipsFeed ==
  /\ [][\A p \in Procs :
          (Len(fetched'[p]) > Len(fetched[p])
             /\ fetched'[p][Len(fetched'[p])] # "ok") =>
            /\ pc'[p] = "feeds"
            /\ UNCHANGED <<ran, cur, posts, docs, tmpf, assetFiles,
                           assetTemps, stagedTemps>>]_vars
  /\ <>(Len(fetched["run1"]) = MaxFeeds)

\* C12 witness: after a feed whose fetch failed, an entry of a later feed
\* has been written.
C12_Witness ==
  /\ Len(fetched["run1"]) = 2
  /\ fetched["run1"][1] \in {"network", "timeout", "status"}
  /\ fetched["run1"][2] = "ok"
  /\ Len(posts) = 1

\* C13: the commit of an entry does not raise at its BEGIN: whatever
\* happened to an earlier entry of the run, a later entry gets as far as the
\* in-transaction check and ends as it would have on an unused connection.
C13_LaterEntryUnaffected ==
  [][\A p \in Procs : pc[p] = "begin" => ret'[p] # "Raised"]_vars

\* C14: rows are committed one at a time and by the run whose call inserted
\* them, a run's write lock is given up by that run's own step only, and no
\* commit call raises while another run's transaction is open.
C14_TransactionsIsolated ==
  [][\A p \in Procs :
       /\ (Steps(p) /\ posts' # posts) =>
            posts' = Append(posts, PostRow(Item(p)))
       /\ (writer = p /\ writer' # p) => Steps(p)
       /\ (ret'[p] = "Raised" /\ ret[p] # "Raised") =>
            \A q \in Procs \ {p} : txn[q] = "none"]_vars

\* the entry the run has just taken, if the step takes one
Taken(p) == ran'[p] \ ran[p]

\* C16: the precheck leaves the store as it is, and when it finds the entry
\* the run goes on to the next entry: no download, no temp file, no commit
\* call, posts and the content directory unchanged.
C16_PrecheckSkipsWithoutEffect ==
  [][\A p \in Procs : \A i \in Taken(p) :
       /\ UNCHANGED <<posts, docs, txn, snap, writer, assetFiles>>
       /\ ExistsGuidOrFp(View(p), FeedItem(i).guid, FeedItem(i).fingerprint) =>
            /\ pc'[p] = "idle"
            /\ UNCHANGED <<cur, tmpf, ret, added, wrote, tempAssets,
                           finalAssetPaths, dlok, assetTemps, orphanTemps,
                           stagedTemps>>]_vars

\* C16 witness: a run has taken zero_nog, an entry with an enclosure and the
\* fingerprint of a row another run committed, and no temp file was made.
C16_Witness ==
  \E p \in Procs :
    /\ pc[p] = "idle"
    /\ ran[p] = {"zero_nog"}
    /\ Matching("zero_nog") # {}
    /\ ~orphanTemps

\* C19: no temp file of download_to_temp outlives the processing of its
\* entry: between entries and at the end of the run none is on disk.
C19_NoTempAssetLeft ==
  /\ ~orphanTemps
  /\ \A p \in Procs :
       pc[p] \in {"idle", "done"} => stagedTemps[p] = {} /\ assetTemps[p] = 0

\* C20: outside atomic_write_post the run's connection is in no transaction:
\* every call has ended the transaction it began, by COMMIT or ROLLBACK.
C20_TransactionEnded ==
  \A p \in Procs : ~InCommit(p) => txn[p] = "none"

C18_FinalizationKeepsPost ==
  [][\A p \in Procs :
       (pc[p] \in {"assets", "move"} /\ Steps(p)) =>
         /\ UNCHANGED <<posts, docs>>
         /\ pc'[p] \in {"assets", "move", "idle"}
         /\ pc'[p] = "idle" => finalAssetPaths[p] = << >>
         /\ pc[p] = "move" =>
              /\ finalAssetPaths'[p] = Tail(finalAssetPaths[p])
              /\ MovingTemp(p) \notin stagedTemps'[p]]_vars

\* C18 witness: the move of the first of two assets has failed (its
\* destination is still free), the second is about to be moved, and the row
\* and the document of the entry are in place.
C18_Witness ==
  \E p \in Procs :
    /\ pc[p] = "move"
    /\ Len(tempAssets[p]) = 2
    /\ Len(finalAssetPaths[p]) = 1
    /\ MovingFinal(p) \notin assetFiles
    /\ Matching(cur[p]) # {}
    /\ docs[FinalPath(Item(p))].item = cur[p]

RECURSIVE WordLen(_)
\* length of the run of non-whitespace characters a text starts with
WordLen(s) ==
  IF s = << >> \/ IsSpace(Head(s)) THEN 0 ELSE 1 + WordLen(Tail(s))

RECURSIVE Words(_)
\* the maximal runs of non-whitespace characters of a text, in order
Words(s) ==
  IF s = << >> THEN << >>
  ELSE IF IsSpace(Head(s)) THEN Words(Tail(s))
       ELSE <<SubSeq(s, 1, WordLen(s))>>
              \o Words(SubSeq(s, WordLen(s) + 1, Len(s)))

RECURSIVE Joined(_)
\* words put together with one space between them
Joined(ws) ==
  IF ws = << >> THEN << >>
  ELSE IF Len(ws) = 1 THEN ws[1]
       ELSE ws[1] \o <<" ">> \o Joined(Tail(ws))

RECURSIVE NonSpace(_)
\* the non-whitespace characters of a text
NonSpace(s) ==
  IF s = << >> THEN << >>
  ELSE IF IsSpace(Head(s)) THEN NonSpace(Tail(s))
       ELSE <<Head(s)>> \o NonSpace(Tail(s))

\* parse_item has computed the fingerprints of the two entries
Parsed == Len(fingerprints) = 2

\* C15 as stated: contents that differ only in whitespace (the same words in
\* the same order) get the same fingerprint, and contents that differ in a
\* non-whitespace character get different fingerprints.
C15_FingerprintAsStated ==
  Parsed =>
    /\ Words(contents[1]) = Words(contents[2]) =>
         fingerprints[1] = fingerprints[2]
    /\ NonSpace(contents[1]) # NonSpace(contents[2]) =>
         fingerprints[1] # fingerprints[2]

\* C15, amended: two entries with the same title and link get the same
\* fingerprint exactly when their contents, as words separated by one space,
\* agree on the first FingerprintChars characters; contents with the same
\* words get the same fingerprint.
C15_FingerprintOfPrefix ==
  Parsed =>
    /\ fingerprints[1] = fingerprints[2] <=>
         Slice(Joined(Words(contents[1])), FingerprintChars)
           = Slice(Joined(Words(contents[2])), FingerprintChars)
    /\ Words(contents[1]) = Words(contents[2]) =>
         fingerprints[1] = fingerprints[2]

\* C15 witness: two contents that differ in their whitespace only, with
\* leading whitespace and another kind of it, have been given one fingerprint.
C15_Witness ==
  /\ Parsed
  /\ contents[1] = <<" ", "a", "\n", "b">>
  /\ contents[2] = <<"a", " ", "b">>
  /\ fingerprints[1] = fingerprints[2]

\* C21: a document at a final document path has a committed row in posts
\* whose path column names that file, and that row is the row of the entry
\* the document was rendered from; this holds in every state, whatever the
\* interleaving of the runs and wherever a run is interrupted.
C21_DocumentHasRow ==
  \A path \in DocPaths :
    docs[path].exists =>
      \E k \in 1..Len(posts) :
        /\ posts[k].path = path
        /\ posts[k] = PostRow(FeedItem(docs[path].item))

\* C21 witness: a run was killed after it had written its temporary file and
\* before the rename, another run is between its COMMIT and its rename, and
\* a document is at a final path.
C21_Witness ==
  /\ \E p \in Procs : pc[p] = "dead" /\ tmpf[p].full
  /\ \E q \in Procs : pc[q] = "replace"
  /\ \E path \in DocPaths : docs[path].exists

\* C22: an entry with no published or updated timestamp gets the wall-clock
\* time of its fetch as its published instant and the day of that time as
\* its date string, so two such entries fetched at different times get
\* different instants.
C22_PublishedAtFetch ==
  \A k \in 1..Len(published) :
    pubParsed[k] = NoTime =>
      /\ published[k].published_dt.t = published[k].at
      /\ published[k].published_date_str = published[k].at \div TicksPerDay
      /\ \A j \in 1..Len(published) :
           (pubParsed[j] = NoTime /\ published[j].at # published[k].at) =>
             published[j].published_dt # published[k].published_dt

====
